---- MODULE Spec2Model ----
(***************************************************************************)
(* Model of alchemy-mcp-server's two process supervisors.                  *)
(*                                                                         *)
(*   src/alchemy-service-manager.ts  AlchemyServiceManager, the Outer      *)
(*                                   Supervisor (SpecSupervisor)           *)
(*   src/http-server.ts              the HTTP bridge and its inner child   *)
(*                                   (SpecBridge)                          *)
(*                                                                         *)
(* Both programs run on one Node.js event loop: every handler (a method    *)
(* call, an event listener, a timer callback) runs to completion, so each  *)
(* is one action.  The two programs share no state; each specification     *)
(* leaves the other program's variables unchanged.                         *)
(***************************************************************************)
EXTENDS Integers, Sequences, FiniteSets, TLC

VARIABLES
    \* ---- AlchemyServiceManager (src/alchemy-service-manager.ts) ----
    process,          \* this.process: 0 is null, else the ChildProcess instance
    restartAttempts,  \* this.restartAttempts
    child,            \* the OS side of every ChildProcess instance
    graceTimer,       \* ms left on the setTimeout(.., 5000) armed by start() for each instance, -1: none
    restartTimer,     \* ms left on the setTimeout(.., delay) armed by each instance's exit handler, -1: none
    spawned,          \* number of spawn() calls so far
    \* history of the supervisor, read only by the properties
    survived,         \* some instance stayed alive for its whole grace window
    graceReset,       \* the instances, not exited yet, that were the tracked process when their own grace timer fired
    calls             \* number of start() and stop() calls made from outside the module

VARIABLES
    \* ---- HTTP bridge (src/http-server.ts) ----
    mcpProcess,       \* the ChildProcess instance the module variable refers to
    isProcessReady,
    requestQueue,     \* the queued requests (each stands for its {id, request, resolve, reject})
    pendingRequests,  \* Map: request id -> the request whose {resolve, reject} is stored
    inner,            \* the OS side of every inner child instance
    stdin,            \* per instance: the ids of the messages it has read from stdin and not answered
    restartsDue,      \* pending setTimeout(.., 2000) callbacks of exit handlers
    timeouts,         \* pending setTimeout(.., 30000) callbacks of sendToMcp, in the order they fire
    posted,           \* number of POST / requests received
    reqId,            \* req.body.id of every request that passed validation ("" when absent)
    http,             \* the HTTP transaction of every request
    resolved,         \* requests whose resolve() has been called
    rejected,         \* requests whose reject() has been called
    \* history of the bridge, read only by the properties
    written,          \* the caller requests written to an inner child's stdin, in order
    gate,             \* the instance whose output last set isProcessReady, 0 when it is false
    drained,          \* the number of requests the handler that ran last took from requestQueue
    resignal          \* the handler that ran last was a readiness signal that found isProcessReady set

supVars == <<process, restartAttempts, child, graceTimer, restartTimer, spawned,
             survived, graceReset, calls>>

bridgeVars == <<mcpProcess, isProcessReady, requestQueue, pendingRequests, inner,
                stdin, restartsDue, timeouts, posted, reqId, http,
                resolved, rejected, written, gate, drained, resignal>>

vars == <<supVars, bridgeVars>>

----------------------------------------------------------------------------
(* Bounds of the model *)

\* ChildProcess instances the supervisor may spawn in one behaviour
MaxInst == 7

\* calls of start() and stop() made from outside the module in one behaviour,
\* and the instances spawned in a behaviour that has such calls
MaxCalls == 2
MaxApiInst == 4

\* POST / requests in one behaviour
MaxReq == 3

\* inner child instances the bridge may spawn in one behaviour
MaxInner == 2

----------------------------------------------------------------------------
(* Outer Supervisor: src/alchemy-service-manager.ts *)

maxRestartAttempts == 5
restartDelay == 2000
graceWindow == 5000

RECURSIVE GCD(_, _)
GCD(a, b) == IF b = 0 THEN a ELSE GCD(b, a % b)

\* Every timer of the supervisor lasts a multiple of TimeStep; time advances
\* in steps of that size.
TimeStep == GCD(restartDelay, graceWindow)

Inst == 1..MaxInst
NoTimer == -1

\* the bound on spawn() calls in the behaviour so far
SpawnLimit == IF calls > 0 THEN MaxApiInst ELSE MaxInst

\* a spawn that failed emits 'error' on the next tick of the event loop,
\* before any other event is handled
ErrorDue == \E i \in Inst : child[i] = "failed"

\* The state once the module has loaded: the manager is constructed and its
\* first start() has run (lines 84-85), spawning instance 1.
SupLoaded ==
    /\ process = 1
    /\ restartAttempts = 0
    /\ \E outcome \in {"alive", "failed"} :
           child = [i \in Inst |-> IF i = 1 THEN outcome ELSE "none"]
    /\ graceTimer = [i \in Inst |-> IF i = 1 THEN graceWindow ELSE NoTimer]
    /\ restartTimer = [i \in Inst |-> NoTimer]
    /\ spawned = 1
    /\ survived = FALSE
    /\ graceReset = {}
    /\ calls = 0

\* start(): returns at once when a process is tracked; otherwise spawns a
\* new instance (which comes up, or fails to spawn and will emit 'error'),
\* tracks it and arms its grace timer.
start(outcome) ==
    IF process # 0
    THEN UNCHANGED <<process, child, graceTimer, spawned>>
    ELSE /\ spawned < SpawnLimit
         /\ spawned' = spawned + 1
         /\ process' = spawned + 1
         /\ child' = [child EXCEPT ![spawned + 1] = outcome]
         /\ graceTimer' = [graceTimer EXCEPT ![spawned + 1] = graceWindow]

\* start() called from outside the module
Start ==
    /\ ~ErrorDue
    /\ calls < MaxCalls
    /\ calls' = calls + 1
    /\ \E outcome \in {"alive", "failed"} : start(outcome)
    /\ UNCHANGED <<restartAttempts, restartTimer, survived, graceReset>>
    /\ UNCHANGED bridgeVars

\* An exit listener without the ceiling: it schedules a restart after every
\* exit, however many attempts were made; a permanent stop is then never
\* reached.
ExitEventNoCeiling(i) ==
    /\ ~ErrorDue
    /\ child[i] \in {"alive", "killed"}
    /\ child' = [child EXCEPT ![i] = "exited"]
    /\ process' = 0
    /\ restartAttempts' = IF restartAttempts < maxRestartAttempts
                          THEN restartAttempts + 1 ELSE restartAttempts
    /\ restartTimer' = [restartTimer EXCEPT ![i] = restartDelay * restartAttempts']
    /\ survived' = (survived \/ graceTimer[i] <= 0)
    /\ graceReset' = graceReset \ {i}
    /\ UNCHANGED <<graceTimer, spawned, calls>>
    /\ UNCHANGED bridgeVars

\* the 'exit' listener of instance i
ExitEvent(i) ==
    /\ ~ErrorDue
    /\ child[i] \in {"alive", "killed"}
    /\ child' = [child EXCEPT ![i] = "exited"]
    /\ process' = 0
    /\ IF restartAttempts < maxRestartAttempts
       THEN /\ restartAttempts' = restartAttempts + 1
            /\ restartTimer' = [restartTimer EXCEPT ![i] = restartDelay * (restartAttempts + 1)]
       ELSE UNCHANGED <<restartAttempts, restartTimer>>
    /\ survived' = (survived \/ graceTimer[i] <= 0)
    /\ graceReset' = graceReset \ {i}
    /\ UNCHANGED <<graceTimer, spawned, calls>>
    /\ UNCHANGED bridgeVars

\* An error listener that treats the failed spawn as a crash: it counts an
\* attempt and schedules a restart.
ErrorEventAsCrash(i) ==
    /\ child[i] = "failed"
    /\ child' = [child EXCEPT ![i] = "errored"]
    /\ process' = 0
    /\ IF restartAttempts < maxRestartAttempts
       THEN /\ restartAttempts' = restartAttempts + 1
            /\ restartTimer' = [restartTimer EXCEPT ![i] = restartDelay * (restartAttempts + 1)]
       ELSE UNCHANGED <<restartAttempts, restartTimer>>
    /\ UNCHANGED <<graceTimer, spawned, survived, graceReset, calls>>
    /\ UNCHANGED bridgeVars

\* the 'error' listener of instance i (the spawn failed)
ErrorEvent(i) ==
    /\ child[i] = "failed"
    /\ child' = [child EXCEPT ![i] = "errored"]
    /\ process' = 0
    /\ UNCHANGED <<restartAttempts, graceTimer, restartTimer, spawned, survived, graceReset, calls>>
    /\ UNCHANGED bridgeVars

\* the callback of the grace timer armed by the start() that spawned i
GraceFire(i) ==
    /\ ~ErrorDue
    /\ graceTimer[i] = 0
    /\ graceTimer' = [graceTimer EXCEPT ![i] = NoTimer]
    /\ IF process # 0
       THEN restartAttempts' = 0
       ELSE UNCHANGED restartAttempts
    /\ survived' = (survived \/ child[i] \in {"alive", "killed"})
    /\ graceReset' = IF process = i THEN graceReset \cup {i} ELSE graceReset
    /\ UNCHANGED <<process, child, restartTimer, spawned, calls>>
    /\ UNCHANGED bridgeVars

\* the callback of the restart timer armed by the exit handler of i
RestartFire(i) ==
    /\ ~ErrorDue
    /\ restartTimer[i] = 0
    /\ restartTimer' = [restartTimer EXCEPT ![i] = NoTimer]
    /\ \E outcome \in {"alive", "failed"} : start(outcome)
    /\ UNCHANGED <<restartAttempts, survived, graceReset, calls>>
    /\ UNCHANGED bridgeVars

\* stop()
Stop ==
    /\ ~ErrorDue
    /\ calls < MaxCalls
    /\ calls' = calls + 1
    /\ process # 0
    /\ child' = [child EXCEPT ![process] = IF @ = "alive" THEN "killed" ELSE @]
    /\ process' = 0
    /\ restartAttempts' = 0
    /\ UNCHANGED <<graceTimer, restartTimer, spawned, survived, graceReset>>
    /\ UNCHANGED bridgeVars

\* Time passes: no timer is due.
Tick ==
    /\ ~ErrorDue
    /\ \E i \in Inst : graceTimer[i] > 0 \/ restartTimer[i] > 0
    /\ \A i \in Inst : graceTimer[i] # 0 /\ restartTimer[i] # 0
    /\ graceTimer' = [i \in Inst |-> IF graceTimer[i] > 0 THEN graceTimer[i] - TimeStep ELSE graceTimer[i]]
    /\ restartTimer' = [i \in Inst |-> IF restartTimer[i] > 0 THEN restartTimer[i] - TimeStep ELSE restartTimer[i]]
    /\ UNCHANGED <<process, restartAttempts, child, spawned, survived, graceReset, calls>>
    /\ UNCHANGED bridgeVars

----------------------------------------------------------------------------
(* HTTP bridge: src/http-server.ts *)

Inner == 1..MaxInner
Req == 1..MaxReq

\* request ids a caller may put in its body; "" stands for an absent id
CallerIds == {"a", "init"}
NoId == ""

\* `req_${Date.now()}_${Math.random()}`: an id no other request has
GenId(r) == "req_" \o ToString(r)

\* const requestId = request.id || <generated>
RequestId(r, id) == IF id # NoId THEN id ELSE GenId(r)

\* lines an inner child prints on stdout
NonJsonLine == [json |-> FALSE, result |-> FALSE, id |-> NoId]
ResultLine(id) == [json |-> TRUE, result |-> TRUE, id |-> id]

\* Map.set and Map.delete
MapSet(m, k, v) == [x \in DOMAIN m \cup {k} |-> IF x = k THEN v ELSE m[x]]
MapDelete(m, k) == [x \in DOMAIN m \ {k} |-> m[x]]

\* The part of the bridge's state that sendToMcp and processQueue work on.
Bridge ==
    [queue |-> requestQueue, pending |-> pendingRequests, stdin |-> stdin,
     timeouts |-> timeouts, http |-> http, resolved |-> resolved,
     rejected |-> rejected, written |-> written]

Commit(b) ==
    /\ requestQueue' = b.queue
    /\ pendingRequests' = b.pending
    /\ stdin' = b.stdin
    /\ timeouts' = b.timeouts
    /\ http' = b.http
    /\ resolved' = b.resolved
    /\ rejected' = b.rejected
    /\ written' = b.written

\* resolve(value) of request r: `res.json(response)` if the promise is unsettled
resolve(b, r) ==
    [b EXCEPT !.resolved = @ \cup {r},
              !.http = [@ EXCEPT ![r] = IF @ = "waiting" THEN "200" ELSE @]]

\* reject(reason) of request r: `res.status(500)` if the promise is unsettled
reject(b, r) ==
    [b EXCEPT !.rejected = @ \cup {r},
              !.http = [@ EXCEPT ![r] = IF @ = "waiting" THEN "500" ELSE @]]

\* mcpProcess.stdin.write(..): the current instance reads the message if it
\* is running; what is written to an instance that is gone is lost.
stdinWrite(in, id) ==
    IF inner[mcpProcess] = "alive"
    THEN [in EXCEPT ![mcpProcess] = @ \cup {id}]
    ELSE in

\* sendToMcp(request, resolve, reject) for request r with body id `id`
sendToMcp(b, r, id) ==
    IF mcpProcess = 0
    THEN reject(b, r)
    ELSE [b EXCEPT
            !.pending = MapSet(@, RequestId(r, id), r),
            !.stdin = stdinWrite(@, RequestId(r, id)),
            !.timeouts = Append(@, r),
            !.written = Append(@, r)]

\* A processQueue that takes the newest request first (pop instead of
\* shift); FIFO drainage does not hold of it.
RECURSIVE processQueueLifo(_, _)
processQueueLifo(b, ready) ==
    IF Len(b.queue) > 0 /\ ready
    THEN processQueueLifo(
            sendToMcp([b EXCEPT !.queue = SubSeq(@, 1, Len(@) - 1)],
                      b.queue[Len(b.queue)], reqId[b.queue[Len(b.queue)]]),
            ready)
    ELSE b

\* processQueue(), with isProcessReady = ready
RECURSIVE processQueue(_, _)
processQueue(b, ready) ==
    IF Len(b.queue) > 0 /\ ready
    THEN processQueue(
            sendToMcp([b EXCEPT !.queue = Tail(@)], Head(b.queue), reqId[Head(b.queue)]),
            ready)
    ELSE b

\* A readiness signal that sets the flag and leaves the queue as it is; the
\* queue is then no longer empty whenever isProcessReady holds.
signalReadyNoDrain(i) ==
    /\ isProcessReady' = TRUE
    /\ gate' = i
    /\ Commit(Bridge)
    /\ drained' = 0
    /\ resignal' = isProcessReady

\* A readiness signal that also writes the initialize message again; a
\* repeated signal then has an effect on the inner child.
signalReadyReinit(i) ==
    /\ isProcessReady' = TRUE
    /\ gate' = i
    /\ Commit([processQueue(Bridge, TRUE) EXCEPT !.stdin = stdinWrite(@, "init")])
    /\ drained' = Len(requestQueue)
    /\ resignal' = isProcessReady

\* a readiness signal from instance i: isProcessReady = true; processQueue()
signalReady(i) ==
    /\ isProcessReady' = TRUE
    /\ gate' = i
    /\ Commit(processQueue(Bridge, TRUE))
    /\ drained' = Len(requestQueue)
    /\ resignal' = isProcessReady

\* a spawn that failed emits 'error' on the next tick of the event loop,
\* before any other event is handled
McpErrorDue == \E i \in Inner : inner[i] = "failed"

\* The state once the module has loaded: startMcpProcess() has run once
\* (line 208), the instance came up or failed to spawn, and the initialize
\* message is written to its stdin.
BridgeLoaded ==
    /\ mcpProcess = 1
    /\ isProcessReady = FALSE
    /\ requestQueue = <<>>
    /\ pendingRequests = <<>>
    /\ \E outcome \in {"alive", "failed"} :
          /\ inner = [i \in Inner |-> IF i = 1 THEN outcome ELSE "none"]
          /\ stdin = [i \in Inner |-> IF i = 1 /\ outcome = "alive" THEN {"init"} ELSE {}]
    /\ restartsDue = 0
    /\ timeouts = <<>>
    /\ posted = 0
    /\ reqId = [r \in Req |-> NoId]
    /\ http = [r \in Req |-> "none"]
    /\ resolved = {}
    /\ rejected = {}
    /\ written = <<>>
    /\ gate = 0
    /\ drained = 0
    /\ resignal = FALSE

\* startMcpProcess() called by the restart timer of an exit handler
RestartMcp ==
    /\ ~McpErrorDue
    /\ restartsDue > 0
    /\ restartsDue' = restartsDue - 1
    /\ mcpProcess < MaxInner
    /\ mcpProcess' = mcpProcess + 1
    /\ \E outcome \in {"alive", "failed"} :
          /\ inner' = [inner EXCEPT ![mcpProcess] = "closed", ![mcpProcess + 1] = outcome]
          /\ stdin' = [stdin EXCEPT ![mcpProcess] = {}, ![mcpProcess + 1] =
                          IF outcome = "alive" THEN {"init"} ELSE {}]
    /\ UNCHANGED <<isProcessReady, requestQueue, pendingRequests,
                   timeouts, posted, reqId, http, resolved, rejected, written, gate>>
    /\ drained' = 0 /\ resignal' = FALSE
    /\ UNCHANGED supVars

\* The output of instance i reaches the bridge while the instance runs and,
\* for what it printed before it went, after its 'exit' event as well: the
\* pipes of an instance that has exited are taken to be drained and closed
\* by the time its restart timer (2000 ms) fires.
Piped(i) == inner[i] \in {"alive", "exited"}

\* the lines instance i may have printed on stdout: the answer to a message
\* it has read (echoing its id), a result without an id, a line that is not
\* JSON
Lines(i) == {ResultLine(id) : id \in stdin[i]} \cup {ResultLine(NoId), NonJsonLine}

\* A lookup that ignores the id of the response and takes the oldest pending
\* request; responses are then no longer correlated by id.
pendingGetOldest(id) ==
    LET oldest == CHOOSE k \in DOMAIN pendingRequests :
                     \A j \in DOMAIN pendingRequests : pendingRequests[k] <= pendingRequests[j]
    IN pendingRequests[oldest]

\* pendingRequests.get(response.id)
pendingGet(id) == pendingRequests[id]

\* the stdout 'data' listener of instance i, for each line of the chunk
StdoutLine(i, response) ==
    /\ IF ~response.json
       THEN /\ drained' = 0 /\ resignal' = FALSE
            /\ UNCHANGED <<isProcessReady, gate, requestQueue, pendingRequests,
                           stdin, timeouts, http, resolved, rejected, written>>
       ELSE IF response.result /\ response.id = NoId
       THEN signalReady(i)
       ELSE IF response.id # NoId /\ response.id \in DOMAIN pendingRequests
       THEN /\ Commit([resolve(Bridge, pendingGet(response.id))
                         EXCEPT !.pending = MapDelete(@, response.id),
                                !.stdin = [@ EXCEPT ![i] = @ \ {response.id}]])
            /\ drained' = 0 /\ resignal' = FALSE
            /\ UNCHANGED <<isProcessReady, gate>>
       ELSE /\ stdin' = [stdin EXCEPT ![i] = @ \ {response.id}]
            /\ drained' = 0 /\ resignal' = FALSE
            /\ UNCHANGED <<isProcessReady, gate, requestQueue, pendingRequests,
                           timeouts, http, resolved, rejected, written>>
    /\ UNCHANGED <<mcpProcess, inner, restartsDue, posted, reqId>>
    /\ UNCHANGED supVars

StdoutData(i) ==
    /\ ~McpErrorDue
    /\ Piped(i)
    /\ \E response \in Lines(i) : StdoutLine(i, response)

\* the stderr 'data' listener of instance i, for a chunk that includes
\* 'running on stdio' (any other chunk is only logged)
StderrData(i) ==
    /\ ~McpErrorDue
    /\ Piped(i)
    /\ signalReady(i)
    /\ UNCHANGED <<mcpProcess, inner, restartsDue, posted, reqId>>
    /\ UNCHANGED supVars

\* the 'exit' listener of instance i
McpExit(i) ==
    /\ ~McpErrorDue
    /\ inner[i] = "alive"
    /\ inner' = [inner EXCEPT ![i] = "exited"]
    /\ isProcessReady' = FALSE
    /\ gate' = 0
    /\ restartsDue' = restartsDue + 1
    /\ UNCHANGED <<mcpProcess, requestQueue, pendingRequests, stdin, timeouts,
                   posted, reqId, http, resolved, rejected, written>>
    /\ drained' = 0 /\ resignal' = FALSE
    /\ UNCHANGED supVars

\* the 'error' listener of instance i (the spawn failed): logs
McpError(i) ==
    /\ inner[i] = "failed"
    /\ inner' = [inner EXCEPT ![i] = "errored"]
    /\ UNCHANGED <<mcpProcess, isProcessReady, requestQueue, pendingRequests, stdin,
                   restartsDue, timeouts, posted, reqId, http,
                   resolved, rejected, written, gate>>
    /\ drained' = 0 /\ resignal' = FALSE
    /\ UNCHANGED supVars

\* the callback of the oldest pending 30 s timer, armed by sendToMcp for r
Timeout ==
    /\ ~McpErrorDue
    /\ Len(timeouts) > 0
    /\ LET r == Head(timeouts)
           requestId == RequestId(r, reqId[r])
           b == [Bridge EXCEPT !.timeouts = Tail(@)] IN
       IF requestId \in DOMAIN pendingRequests
       THEN Commit(reject([b EXCEPT !.pending = MapDelete(@, requestId)], r))
       ELSE Commit(b)
    /\ UNCHANGED <<mcpProcess, isProcessReady, inner, restartsDue,
                   posted, reqId, gate>>
    /\ drained' = 0 /\ resignal' = FALSE
    /\ UNCHANGED supVars

\* the JSON-RPC error codes of the responses built by app.post('/')
InvalidRequest == -32600
InternalError == -32603

\* error.code of the body sent with an HTTP status (0: the body has no error
\* member of the bridge's making)
errorCode(status) ==
    CASE status = "400" -> InvalidRequest
      [] status = "500" -> InternalError
      [] OTHER -> 0

\* bodies a caller may post: the jsonrpc and method members ("" when absent)
JsonRpcs == {"2.0", "1.0", ""}
Methods == {"tools/list", ""}

\* An app.post('/') that validates the jsonrpc member only: a request
\* without a method is queued or sent like a valid one.
PostNoMethodCheck(jsonrpc, method, id) ==
    /\ ~McpErrorDue
    /\ posted < MaxReq
    /\ posted' = posted + 1
    /\ LET r == posted + 1 IN
       IF jsonrpc # "2.0"
       THEN /\ http' = [http EXCEPT ![r] = "400"]
            /\ UNCHANGED <<reqId, requestQueue, pendingRequests, stdin, timeouts,
                           resolved, rejected, written>>
       ELSE /\ reqId' = [reqId EXCEPT ![r] = id]
            /\ LET b == [Bridge EXCEPT !.http = [@ EXCEPT ![r] = "waiting"]] IN
               IF isProcessReady
               THEN Commit(sendToMcp(b, r, id))
               ELSE Commit([b EXCEPT !.queue = Append(@, r)])
    /\ UNCHANGED <<mcpProcess, isProcessReady, inner, restartsDue, gate>>
    /\ drained' = 0 /\ resignal' = FALSE
    /\ UNCHANGED supVars

\* app.post('/') for a request with the given body
Post(jsonrpc, method, id) ==
    /\ ~McpErrorDue
    /\ posted < MaxReq
    /\ posted' = posted + 1
    /\ LET r == posted + 1 IN
       IF jsonrpc # "2.0" \/ method = ""
       THEN /\ http' = [http EXCEPT ![r] = "400"]
            /\ UNCHANGED <<reqId, requestQueue, pendingRequests, stdin, timeouts,
                           resolved, rejected, written>>
       ELSE /\ reqId' = [reqId EXCEPT ![r] = id]
            /\ LET b == [Bridge EXCEPT !.http = [@ EXCEPT ![r] = "waiting"]] IN
               IF isProcessReady
               THEN Commit(sendToMcp(b, r, id))
               ELSE Commit([b EXCEPT !.queue = Append(@, r)])
    /\ UNCHANGED <<mcpProcess, isProcessReady, inner, restartsDue, gate>>
    /\ drained' = 0 /\ resignal' = FALSE
    /\ UNCHANGED supVars

----------------------------------------------------------------------------
(* Specifications: each program on its own, the other one not loaded *)

SupOff ==
    /\ process = 0
    /\ restartAttempts = 0
    /\ child = [i \in Inst |-> "none"]
    /\ graceTimer = [i \in Inst |-> NoTimer]
    /\ restartTimer = [i \in Inst |-> NoTimer]
    /\ spawned = 0
    /\ survived = FALSE
    /\ graceReset = {}
    /\ calls = 0

BridgeOff ==
    /\ mcpProcess = 0
    /\ isProcessReady = FALSE
    /\ requestQueue = <<>>
    /\ pendingRequests = <<>>
    /\ inner = [i \in Inner |-> "none"]
    /\ stdin = [i \in Inner |-> {}]
    /\ restartsDue = 0
    /\ timeouts = <<>>
    /\ posted = 0
    /\ reqId = [r \in Req |-> NoId]
    /\ http = [r \in Req |-> "none"]
    /\ resolved = {}
    /\ rejected = {}
    /\ written = <<>>
    /\ gate = 0
    /\ drained = 0
    /\ resignal = FALSE

SupInit == SupLoaded /\ BridgeOff

\* The module as it runs on its own: nothing outside calls start() or stop().
SupNext ==
    \/ Tick
    \/ \E i \in Inst : ExitEvent(i)
    \/ \E i \in Inst : ErrorEvent(i)
    \/ \E i \in Inst : GraceFire(i)
    \/ \E i \in Inst : RestartFire(i)

SpecSupervisor == SupInit /\ [][SupNext]_vars

\* The manager driven through its public methods as well.
SupApiNext ==
    \/ Start
    \/ Stop
    \/ Tick
    \/ \E i \in Inst : ExitEvent(i)
    \/ \E i \in Inst : ErrorEvent(i)
    \/ \E i \in Inst : GraceFire(i)
    \/ \E i \in Inst : RestartFire(i)

SpecSupervisorApi == SupInit /\ [][SupApiNext]_vars

BridgeInit == BridgeLoaded /\ SupOff

BridgeNext ==
    \/ \E jsonrpc \in JsonRpcs, method \in Methods,
          id \in CallerIds \cup {NoId} : Post(jsonrpc, method, id)
    \/ Timeout
    \/ RestartMcp
    \/ \E i \in Inner : StdoutData(i)
    \/ \E i \in Inner : StderrData(i)
    \/ \E i \in Inner : McpExit(i)
    \/ \E i \in Inner : McpError(i)

SpecBridge == BridgeInit /\ [][BridgeNext]_vars

----------------------------------------------------------------------------
(* Properties of the Outer Supervisor *)

Exited == {i \in Inst : child[i] = "exited"}

\* C4 (grace-reset invariant): a grace timer resets restartAttempts only
\* when the tracked instance is the instance whose start() armed that timer
\* (which has then been tracked, without an exit event, for the whole grace
\* window).
C4_GraceResetOnlyForOwnInstance ==
    [][\A i \in Inst : (GraceFire(i) /\ process # 0) => process = i]_vars

\* C5 (backoff growth and ceiling): while no instance has survived its grace
\* window and nothing outside has called start() or stop(), the exit handler
\* of the Nth crash schedules the restart after restartDelay * N for
\* N = 1..maxRestartAttempts, and schedules nothing for a later crash.
C5_BackoffGrowthAndCeiling ==
    [][\A i \in Inst :
         (ExitEvent(i) /\ calls = 0 /\ ~survived') =>
            LET N == Cardinality(Exited') IN
            IF N <= maxRestartAttempts
            THEN restartTimer'[i] = restartDelay * N
            ELSE restartTimer'[i] = NoTimer]_vars

\* C6 (single instance): at most one spawned child is alive, and an alive
\* child is the one the handle references.  A child that stop() has sent
\* SIGTERM is not counted as alive here.
C6_SingleTrackedInstance ==
    /\ Cardinality({i \in Inst : child[i] = "alive"}) <= 1
    /\ \A i \in Inst : child[i] = "alive" => process = i

\* C11 (grace reset restarts the streak): when an instance that was the
\* tracked process at the firing of its own grace timer crashes, the exit
\* handler sets restartAttempts to 1 and schedules the restart after
\* restartDelay * 1.
C11_GraceResetRestartsStreak ==
    [][\A i \in Inst :
         (ExitEvent(i) /\ i \in graceReset /\ child[i] = "alive") =>
            (restartAttempts' = 1 /\ restartTimer'[i] = restartDelay * 1)]_vars

\* no child is tracked, the ceiling is reached and no restart is scheduled
PermanentStop ==
    /\ process = 0
    /\ restartAttempts >= maxRestartAttempts
    /\ \A i \in Inst : restartTimer[i] = NoTimer

\* C14 (permanent stop is terminal): an exit handled with restartAttempts at
\* the ceiling schedules no restart, and from then on, with no call from
\* outside, no child is spawned and no timer changes restartAttempts.
C14_PermanentStopIsTerminal ==
    [][/\ \A i \in Inst : (ExitEvent(i) /\ restartAttempts >= maxRestartAttempts) =>
                              (restartTimer' = restartTimer /\ PermanentStop')
       /\ PermanentStop => (/\ spawned' = spawned
                            /\ restartAttempts' = restartAttempts
                            /\ PermanentStop')]_vars

\* the child spawned after the last allowed attempt has exited, and every
\* timer that was still pending then has fired since
C14_Witness ==
    /\ PermanentStop
    /\ Cardinality(Exited) = maxRestartAttempts + 1
    /\ \A i \in Inst : graceTimer[i] = NoTimer

\* no child is tracked, none can still emit an event, no restart is scheduled
Idle ==
    /\ process = 0
    /\ \A i \in Inst : restartTimer[i] = NoTimer
    /\ \A i \in Inst : child[i] \notin {"alive", "killed", "failed"}

\* C18 (spawn error is not a crash): the error handler clears the handle,
\* leaves restartAttempts as it is and schedules no restart; the supervisor
\* is then idle and, with no call from outside, stays idle and spawns nothing.
C18_SpawnErrorIsNotACrash ==
    [][/\ \A i \in Inst : ErrorEvent(i) =>
                              (/\ process' = 0
                               /\ restartAttempts' = restartAttempts
                               /\ restartTimer' = restartTimer
                               /\ Idle')
       /\ Idle => (Idle' /\ spawned' = spawned /\ process' = 0)]_vars

\* a restarted instance failed to spawn: the supervisor is idle, the count
\* of the crash before it is kept, and every grace timer has fired
C18_Witness ==
    /\ Idle
    /\ \E i \in Inst : child[i] = "errored"
    /\ restartAttempts > 0
    /\ \A i \in Inst : graceTimer[i] = NoTimer

\* C19 (stop really stops): stop() clears the handle and sets restartAttempts
\* to 0, and when stop() was the only call from outside, the exit event of
\* the child it signalled leaves the handle clear, the counter at 0 and no
\* restart scheduled (so that no child is spawned again).
C19_StopReallyStops ==
    [][/\ Stop => (process' = 0 /\ restartAttempts' = 0)
       /\ \A i \in Inst :
             (ExitEvent(i) /\ child[i] = "killed" /\ calls = 1) =>
                (/\ process' = 0
                 /\ restartAttempts' = 0
                 /\ \A j \in Inst : restartTimer'[j] = NoTimer)]_vars

\* C20 (counter bounds): restartAttempts stays within 0..maxRestartAttempts
\* and at most one restart timer is pending.
C20_CounterBounds ==
    /\ restartAttempts \in 0..maxRestartAttempts
    /\ Cardinality({i \in Inst : restartTimer[i] # NoTimer}) <= 1

----------------------------------------------------------------------------
(* Properties of the HTTP bridge *)

\* the requests sendToMcp has dispatched (registered and written)
Dispatched == {written[k] : k \in 1..Len(written)}

\* the id under which request r is registered
IdOf(r) == RequestId(r, reqId[r])

\* how often the continuation pair of request r has been invoked
Calls(r) == (IF r \in resolved THEN 1 ELSE 0) + (IF r \in rejected THEN 1 ELSE 0)

\* dispatched requests that nothing has resolved or rejected yet
Outstanding == {r \in Dispatched : Calls(r) = 0}

TimerPending(r) == \E k \in 1..Len(timeouts) : timeouts[k] = r
Queued(r) == \E k \in 1..Len(requestQueue) : requestQueue[k] = r
OwnEntry(r) == IdOf(r) \in DOMAIN pendingRequests /\ pendingRequests[IdOf(r)] = r

AllIds == CallerIds \cup {GenId(r) : r \in Req}

\* C1 (exactly-once resolution): a dispatched request has its id in
\* pendingRequests until it is resolved, its continuation pair is never
\* invoked twice, and while it is unresolved something is left that can
\* resolve it (its own entry or its own timer).
C1_ExactlyOnceResolution ==
    \A r \in Dispatched :
        /\ Calls(r) <= 1
        /\ Calls(r) = 0 => IdOf(r) \in DOMAIN pendingRequests
        /\ Calls(r) = 0 => (OwnEntry(r) \/ TimerPending(r))

\* C2 (timeout isolation): the timer of request r removes no entry but r's
\* own, fails r only if r is still pending, and changes no other request's
\* outcome.
C2_TimeoutIsolation ==
    [][(Len(timeouts) > 0 /\ timeouts' = Tail(timeouts)) =>
          LET r == Head(timeouts) IN
          /\ \A k \in DOMAIN pendingRequests \ DOMAIN pendingRequests' :
                pendingRequests[k] = r
          /\ r \in rejected' \ rejected => OwnEntry(r)
          /\ \A q \in Req \ {r} : http'[q] = http[q]
          /\ resolved' = resolved /\ rejected' \subseteq rejected \cup {r}]_vars

\* C3 (correlation correctness): while the outstanding requests have
\* pairwise distinct ids, a stdout line bearing id X resolves no caller but
\* the one that dispatched id X, rejects nobody, removes the entry of X and
\* leaves every other entry of pendingRequests as it is.
DistinctOutstanding == \A q, r \in Outstanding : q # r => IdOf(q) # IdOf(r)

C3_CorrelationCorrectness ==
    [][\A i \in Inner : \A X \in AllIds :
          (/\ DistinctOutstanding
           /\ Piped(i)
           /\ ResultLine(X) \in Lines(i)
           /\ StdoutLine(i, ResultLine(X))) =>
             /\ \A r \in Req : (r \in resolved' \ resolved \/ http'[r] # http[r]) =>
                                  (r \in Outstanding /\ IdOf(r) = X)
             /\ rejected' = rejected
             /\ X \notin DOMAIN pendingRequests'
             /\ \A k \in DOMAIN pendingRequests \ {X} :
                   k \in DOMAIN pendingRequests' /\ pendingRequests'[k] = pendingRequests[k]
             /\ DOMAIN pendingRequests' \subseteq DOMAIN pendingRequests]_vars

\* a later request has been resolved by its response while an earlier one,
\* with another id, is still pending
C3_Witness ==
    \E q, r \in Req :
        /\ q < r
        /\ r \in resolved /\ http[r] = "200"
        /\ q \in Outstanding /\ OwnEntry(q)
        /\ IdOf(q) # IdOf(r)

\* C7 (FIFO drainage): a readiness signal that finds requests in requestQueue
\* writes them in queue order, each once, and leaves the queue empty; no
\* request is ever written twice.
C7_FifoDrainage ==
    /\ [](\A j, k \in 1..Len(written) : j # k => written[j] # written[k])
    /\ [][(requestQueue # <<>> /\ isProcessReady') =>
             (requestQueue' = <<>> /\ written' = written \o requestQueue)]_vars

\* three queued requests have just been dispatched by one readiness signal
C7_Witness ==
    /\ drained >= 3
    /\ requestQueue = <<>>
    /\ Len(written) >= 3

\* C8 (no overtaking): between handlers isProcessReady implies an empty
\* requestQueue, and requests are written in the order they arrived.
C8_NoOvertaking ==
    /\ isProcessReady => requestQueue = <<>>
    /\ \A j, k \in 1..Len(written) : j < k => written[j] < written[k]

\* a readiness signal has just found requests waiting in the queue
C8_Witness ==
    /\ isProcessReady
    /\ drained >= 2

\* C9 (readiness gate): at most one inner child is alive, and a caller
\* request is written only to the live current instance, after that instance
\* itself has signalled readiness.
C9_ReadinessGate ==
    /\ [](Cardinality({i \in Inner : inner[i] = "alive"}) <= 1)
    /\ [][Len(written') > Len(written) =>
             (inner[mcpProcess] = "alive" /\ gate' = mcpProcess)]_vars

\* C10 (every caller is answered): a request that waits for its HTTP response
\* is still in requestQueue, or has its own entry in pendingRequests, or has
\* its timer pending; otherwise nothing is left that will ever answer it.
C10_NoCallerStranded ==
    \A r \in Req :
        http[r] = "waiting" => (Queued(r) \/ OwnEntry(r) \/ TimerPending(r))

\* C12 (validation has no side effects): a POST / whose jsonrpc member is
\* absent or not "2.0", or whose method is absent or empty, is answered with
\* HTTP 400 and error code -32600 and leaves requestQueue, pendingRequests,
\* isProcessReady and the inner child's stdin as they are.
C12_ValidationHasNoSideEffects ==
    [][\A jsonrpc \in JsonRpcs, method \in Methods, id \in CallerIds \cup {NoId} :
          (Post(jsonrpc, method, id) /\ (jsonrpc # "2.0" \/ method = "")) =>
             /\ http'[posted'] = "400"
             /\ errorCode(http'[posted']) = -32600
             /\ \A q \in Req \ {posted'} : http'[q] = http[q]
             /\ UNCHANGED <<requestQueue, pendingRequests, isProcessReady, stdin,
                            written, timeouts>>]_vars

\* an invalid request has been turned away after a valid one arrived, and
\* the valid one is registered and still waiting
C12_Witness ==
    \E q, r \in Req :
        /\ q < r
        /\ http[r] = "400"
        /\ http[q] = "waiting" /\ OwnEntry(q)

\* C13 (idempotent readiness): a readiness signal (an id-less result line on
\* stdout or the stderr marker) received while isProcessReady is true leaves
\* isProcessReady true, requestQueue empty and pendingRequests unchanged, and
\* writes nothing to the inner child.
C13_IdempotentReadiness ==
    [][(/\ isProcessReady
        /\ \E i \in Inner :
              Piped(i) /\ (StderrData(i) \/ StdoutLine(i, ResultLine(NoId)))) =>
          /\ isProcessReady'
          /\ requestQueue = <<>> /\ requestQueue' = <<>>
          /\ pendingRequests' = pendingRequests
          /\ written' = written
          /\ stdin' = stdin
          /\ timeouts' = timeouts]_vars

\* a repeated readiness signal has just been handled while a request was
\* pending
C13_Witness ==
    /\ resignal
    /\ isProcessReady
    /\ DOMAIN pendingRequests # {}

\* the current inner child has gone, or has not signalled readiness yet
ChannelDown == inner[mcpProcess] # "alive" \/ gate # mcpProcess

\* C15 (inner restart): every exit event sets isProcessReady to false and
\* schedules exactly one restart, and a request that arrives while the
\* current child has gone or has not signalled readiness yet is not written.
C15_InnerRestart ==
    [][/\ \A i \in Inner : McpExit(i) =>
                               (~isProcessReady' /\ restartsDue' = restartsDue + 1)
       /\ (posted' = posted + 1 /\ ChannelDown) => written' = written]_vars

\* C16 (crash containment): the exit handler changes no caller's outcome and
\* no pendingRequests entry, and a caller's request fails only when a running
\* inner child has read it and left it unanswered, never because the child
\* it was written to has exited.
C16_CrashContainment ==
    [][/\ \A i \in Inner : McpExit(i) =>
                               (/\ http' = http
                                /\ resolved' = resolved
                                /\ rejected' = rejected
                                /\ pendingRequests' = pendingRequests)
       /\ \A r \in rejected' \ rejected :
              inner[mcpProcess] = "alive" /\ IdOf(r) \in stdin[mcpProcess]]_vars

\* C17 (reserved initialization id): a stdout line that bears the id of the
\* initialize request, or no id, resolves no caller.
C17_ReservedInitId ==
    [][\A i \in Inner : \A X \in {"init", NoId} :
          (/\ Piped(i)
           /\ ResultLine(X) \in Lines(i)
           /\ StdoutLine(i, ResultLine(X))) =>
             (resolved' = resolved /\ http' = http)]_vars

====
